---------------------------- MODULE Spec2Model ----------------------------
(***************************************************************************)
(* spsc_ringbuf<T, max_size, ThreadSafe> (include/ringbuf.hpp): a fixed    *)
(* capacity single-producer/single-consumer ring buffer over               *)
(* std::array<T, max_size> with two pre-wrapped cursors, head (read) and   *)
(* tail (write).                                                           *)
(*                                                                         *)
(* T is a trivially copyable element type (char / int, as in the tests):   *)
(* copying or moving an element out of a slot leaves the slot as it was.   *)
(*                                                                         *)
(* Three specifications share the state:                                   *)
(*   Spec      isolated mode (ThreadSafe = false): every public operation  *)
(*             is one atomic step;                                         *)
(*   SpecFifo  isolated mode restricted to push_back / pop_front / append  *)
(*             / read_ready / peek_ready (no advance_*, no reset);         *)
(*   SpecConc  concurrent mode (ThreadSafe = true): one producer and one   *)
(*             consumer, one step per cursor load, cursor store or slot    *)
(*             access.                                                     *)
(***************************************************************************)
EXTENDS Integers, Sequences, FiniteSets, TLC

(***************************************************************************)
(* Bounds of the model.                                                    *)
(***************************************************************************)
\* width of size_t in bits (64 in the build; the arithmetic is the same
\* for every width w with max_size <= 2^w)
SizeBits == 6
\* longest array handed to append / largest size handed to read_ready and
\* peek_ready in isolated mode (larger than the largest capacity)
MaxLen == 5
\* largest ordinary argument of advance_*_pointer (SIZE_MAX is tried too)
MaxAdvance == 5
\* length of the stream the producer submits in concurrent mode
StreamLen == 5
\* largest size of one append / read_ready / peek_ready in concurrent mode
MaxChunk == 3

\* capacities instantiated (template parameter max_size, a power of two)
Capacities == {2, 4}
\* element values handed to push_back / append in isolated mode
Values == {1, 2}
\* T{}: a value-initialised element (std::array<T, max_size> buf = {})
DefaultT == 0
\* content of a caller's output array before the call: no element value
Untouched == DefaultT - 1
\* memory orders used by the code
Relaxed == "relaxed"
Acquire == "acquire"
\* no load of the other thread's cursor in the running call yet
NoLoad == "none"
\* the null pointer of an empty view: no index of a slot
Null == -1

VARIABLES
    \* ---- the engine (ringbuf.hpp:379-389)
    max_size,       \* template parameter, fixed at construction
    buf,            \* std::array<T, max_size> buf
    head,           \* read cursor
    tail,           \* write cursor
    \* ---- isolated mode: what the caller of the last operation observed
    op,             \* [name, item, size, is_null, ok, ret, out]
    q,              \* reference FIFO queue of capacity max_size - 1
    q_out,          \* what the reference queue returned for the last removal
    streak,         \* consecutive successful push_back / pop_front calls
    \* ---- concurrent mode: the producer thread
    p_pc, p_item, p_size, p_local_head, p_local_tail, p_copy_size, p_i,
    p_head_order,   \* memory order of the load of head that bounds the writes
    accepted,       \* number of stream elements reported as accepted
    \* ---- concurrent mode: the consumer thread
    c_pc, c_size, c_local_head, c_local_tail, c_copy_size, c_i, c_out,
    c_tail_order,   \* memory order of the load of tail that bounds the reads
    consumed,       \* everything read_ready / pop_front handed to the consumer
    \* ---- concurrent mode: visibility of the producer's slot writes
    racy,           \* slots whose last write does not happen-before the consumer
    old             \* content of each slot before its last write

engine == <<max_size, buf, head, tail>>
observer == <<op, q, q_out, streak>>
producer == <<p_pc, p_item, p_size, p_local_head, p_local_tail, p_copy_size,
              p_i, p_head_order, accepted>>
consumer == <<c_pc, c_size, c_local_head, c_local_tail, c_copy_size, c_i,
              c_out, c_tail_order, consumed>>
memory == <<racy, old>>
threads == <<producer, consumer, memory>>
vars == <<engine, observer, threads>>

(***************************************************************************)
(* size_t arithmetic.                                                      *)
(***************************************************************************)
Min(a, b) == IF a <= b THEN a ELSE b

\* SIZE_MAX
SizeMax == 2^SizeBits - 1

\* the value of a size_t expression: reduced modulo 2^w
Wrap(x) == x % (2^SizeBits)

RECURSIVE BitAnd(_, _)
\* a & b on unsigned operands
BitAnd(a, b) ==
    IF a = 0 \/ b = 0 THEN 0
    ELSE (a % 2) * (b % 2) + 2 * BitAnd(a \div 2, b \div 2)

mask_without_decrement == Wrap(max_size)

\* constexpr static size_t mask = (max_size - 1)
mask == Wrap(max_size - 1)

\* static_assert((max_size & (max_size - 1)) == 0)
static_assert(n) == BitAnd(n, Wrap(n - 1)) = 0

(***************************************************************************)
(* Cursor arithmetic on loaded cursor values.                              *)
(***************************************************************************)
\* (local_tail - local_head) & mask
data_size(local_head, local_tail) ==
    BitAnd(Wrap(local_tail - local_head), mask)

free_size_noreserve(local_head, local_tail) ==
    Wrap(max_size - data_size(local_head, local_tail))

\* max_size - 1 - ((local_tail - local_head) & mask)
free_size(local_head, local_tail) ==
    Wrap(max_size - 1 - data_size(local_head, local_tail))

next_cursor_nomask(local, moved) == Wrap(local + moved)

\* (local + moved) & mask
next_cursor(local, moved) == BitAnd(Wrap(local + moved), mask)

get_data_size_nomask == Wrap(tail - head)

\* size_t get_data_size() const
get_data_size == data_size(head, tail)

\* size_t get_free_size() const
get_free_size == Wrap(max_size - 1 - get_data_size)

\* size_t size() const
size == get_data_size

\* size_t capacity() const
capacity == max_size

\* bool empty() const
empty == get_data_size = 0

full_offbyone == get_data_size = max_size

\* bool full() const
full == get_free_size = 0

(***************************************************************************)
(* buf_store / buf_read: the copy in at most two linear runs.              *)
(***************************************************************************)
store_copy_size_all_or_nothing(local_head, local_tail, sz) ==
    LET free_data_size == free_size(local_head, local_tail)
    IN  IF free_data_size < sz THEN 0 ELSE sz

store_copy_size_overwrite(local_head, local_tail, sz) ==
    LET free_data_size == free_size(local_head, local_tail)
    IN  IF free_data_size = 0 THEN 0 ELSE Min(sz, max_size)

\* buf_store: copy_size = min(size, free_data_size), 0 when nothing is free
store_copy_size(local_head, local_tail, sz) ==
    LET free_data_size == free_size(local_head, local_tail)
    IN  IF free_data_size = 0 THEN 0 ELSE Min(sz, free_data_size)

read_copy_size_all(local_head, local_tail, sz) ==
    data_size(local_head, local_tail)

\* buf_read: copy_size = min(full_data_size, size), 0 when nothing is stored
read_copy_size(local_head, local_tail, sz) ==
    LET full_data_size == data_size(local_head, local_tail)
    IN  IF full_data_size = 0 THEN 0 ELSE Min(full_data_size, sz)

\* first_part = min(max_size - local, copy_size)
first_part(local, copy_size) == Min(Wrap(max_size - local), copy_size)

\* the slot the i-th element (from 0) of a copy starting at cursor `local`
\* goes to or comes from: buf.data() + local + i in the linear part,
\* buf.data() + (i - first_part) in the overflow part
slot_of(local, copy_size, i) ==
    IF i < first_part(local, copy_size)
    THEN local + i
    ELSE i - first_part(local, copy_size)

RECURSIVE copy_in_linear_only(_, _, _, _, _)
copy_in_linear_only(b, local_tail, item, copy_size, i) ==
    IF i >= first_part(local_tail, copy_size) THEN b
    ELSE copy_in_linear_only([b EXCEPT ![local_tail + i] = item[i + 1]],
                             local_tail, item, copy_size, i + 1)

RECURSIVE copy_in(_, _, _, _, _)
\* the two memcpy / copy_n calls of buf_store, element by element from i
copy_in(b, local_tail, item, copy_size, i) ==
    IF i >= copy_size THEN b
    ELSE LET s == slot_of(local_tail, copy_size, i)
         IN  copy_in(IF s \in DOMAIN b THEN [b EXCEPT ![s] = item[i + 1]] ELSE b,
                     local_tail, item, copy_size, i + 1)

copy_out_no_overflow(b, local_head, copy_size) ==
    [i \in 1..copy_size |->
        IF i - 1 < first_part(local_head, copy_size)
        THEN b[local_head + i - 1] ELSE Untouched]

\* the two memcpy / copy_n calls of buf_read: the elements copied out
copy_out(b, local_head, copy_size) ==
    [i \in 1..copy_size |-> b[slot_of(local_head, copy_size, i - 1)]]

\* the caller's array of `sz` elements after `data` was copied to its front
out_array(sz, data) ==
    [i \in 1..sz |-> IF i <= Len(data) THEN data[i] ELSE Untouched]

\* the elements between two cursor values, oldest first
stored(b, local_head, local_tail) ==
    copy_out(b, local_head, data_size(local_head, local_tail))

\* the stored elements, oldest first
contents == stored(buf, head, tail)

\* the slots holding committed, unreleased data
occupied == {slot_of(head, get_data_size, i) : i \in 0..(get_data_size - 1)}

(***************************************************************************)
(* Region views (storage.hpp): a LinearBlock is a base pointer, here the   *)
(* index of the slot it points to or Null, and a length; BufferSegments is *)
(* a pair of them.                                                         *)
(***************************************************************************)
\* LinearBlock<T>{ptr, b_size}
LinearBlock(ptr, b_size) == [ptr |-> ptr, b_size |-> b_size]

\* BufferSegments<T>{first, second}
BufferSegments(first, second) == [first |-> first, second |-> second]

\* bool LinearBlock::empty() const
block_empty(bl) == bl.b_size = 0 \/ bl.ptr = Null

\* the slots from data() up to end()
block_slots(bl) ==
    IF bl.ptr = Null THEN {} ELSE {bl.ptr + i : i \in 0..(bl.b_size - 1)}

\* the elements found by reading *(data() + i) for i < size()
block_elements(b, bl) ==
    IF bl.ptr = Null THEN <<>> ELSE [i \in 1..bl.b_size |-> b[bl.ptr + i - 1]]

\* size_t BufferSegments::total_size() const
total_size(seg) == seg.first.b_size + seg.second.b_size

\* bool BufferSegments::empty() const
segments_empty(seg) == block_empty(seg.first) /\ block_empty(seg.second)

\* bool BufferSegments::is_linear() const
is_linear(seg) == block_empty(seg.second)

segments_slots(seg) == block_slots(seg.first) \cup block_slots(seg.second)

segments_elements(b, seg) ==
    block_elements(b, seg.first) \o block_elements(b, seg.second)

write_linear_block_untruncated(local_head, local_tail) ==
    LET free_space == free_size(local_head, local_tail)
    IN  IF free_space = 0 THEN LinearBlock(Null, 0)
        ELSE LinearBlock(local_tail, free_space)

\* get_write_linear_block_single on the loaded cursor values
write_linear_block(local_head, local_tail) ==
    LET free_space == free_size(local_head, local_tail)
    IN  IF free_space = 0 THEN LinearBlock(Null, 0)
        ELSE LinearBlock(local_tail, Min(free_space, Wrap(capacity - local_tail)))

read_linear_block_untruncated(local_head, local_tail) ==
    LET data_size_ == data_size(local_head, local_tail)
    IN  IF data_size_ = 0 THEN LinearBlock(Null, 0)
        ELSE LinearBlock(local_head, data_size_)

\* get_read_linear_block_single on the loaded cursor values
read_linear_block(local_head, local_tail) ==
    LET data_size_ == data_size(local_head, local_tail)
    IN  IF data_size_ = 0 THEN LinearBlock(Null, 0)
        ELSE LinearBlock(local_head, Min(data_size_, Wrap(capacity - local_head)))

write_segments_first_only(local_head, local_tail) ==
    LET free_space == free_size(local_head, local_tail)
        first_size == Min(free_space, Wrap(max_size - local_tail))
    IN  IF free_space = 0
        THEN BufferSegments(LinearBlock(Null, 0), LinearBlock(Null, 0))
        ELSE BufferSegments(LinearBlock(local_tail, first_size), LinearBlock(Null, 0))

write_segments_unsplit(local_head, local_tail) ==
    LET free_space == free_size(local_head, local_tail)
    IN  IF free_space = 0
        THEN BufferSegments(LinearBlock(Null, 0), LinearBlock(Null, 0))
        ELSE BufferSegments(LinearBlock(local_tail, free_space), LinearBlock(Null, 0))

\* get_write_segments on the loaded cursor values
write_segments(local_head, local_tail) ==
    LET free_space == free_size(local_head, local_tail)
        first_size == Min(free_space, Wrap(max_size - local_tail))
        second_size == Wrap(free_space - first_size)
    IN  IF free_space = 0
        THEN BufferSegments(LinearBlock(Null, 0), LinearBlock(Null, 0))
        ELSE BufferSegments(LinearBlock(local_tail, first_size),
                            IF second_size > 0 THEN LinearBlock(0, second_size)
                            ELSE LinearBlock(Null, 0))

read_segments_first_only(local_head, local_tail) ==
    LET data_size_ == data_size(local_head, local_tail)
        first_size == Min(data_size_, Wrap(max_size - local_head))
    IN  IF data_size_ = 0
        THEN BufferSegments(LinearBlock(Null, 0), LinearBlock(Null, 0))
        ELSE BufferSegments(LinearBlock(local_head, first_size), LinearBlock(Null, 0))

\* get_read_segments on the loaded cursor values
read_segments(local_head, local_tail) ==
    LET data_size_ == data_size(local_head, local_tail)
        first_size == Min(data_size_, Wrap(max_size - local_head))
        second_size == Wrap(data_size_ - first_size)
    IN  IF data_size_ = 0
        THEN BufferSegments(LinearBlock(Null, 0), LinearBlock(Null, 0))
        ELSE BufferSegments(LinearBlock(local_head, first_size),
                            IF second_size > 0 THEN LinearBlock(0, second_size)
                            ELSE LinearBlock(Null, 0))

(***************************************************************************)
(* Inputs.                                                                 *)
(***************************************************************************)
\* an array of n elements that alternates between the two values, so that
\* neighbouring elements always differ
pattern(first, n) == [i \in 1..n |-> IF i % 2 = 1 THEN first ELSE 3 - first]

\* arrays handed to append in isolated mode: every length up to MaxLen
AppendInputs == {pattern(first, n) : first \in Values, n \in 0..MaxLen}

\* arguments handed to advance_*_pointer
AdvanceInputs == 0..MaxAdvance \cup {SizeMax}

\* the stream submitted in concurrent mode: 1, 2, ..., StreamLen
stream(from, n) == [i \in 1..n |-> from + i]

\* the record of the last call: its name, its arguments (`item` of `size`
\* elements, or a null pointer), its result (`ok`, `ret`, the caller's array
\* `out` after the call, the returned `view`) and, for append and advance_*,
\* size() before it
NoOp == [name |-> "none", item |-> <<>>, size |-> 0, is_null |-> FALSE,
         ok |-> TRUE, ret |-> 0, out |-> <<>>, before |-> 0, view |-> <<>>]

NoStreak == [kind |-> "none", n |-> 0]

Init ==
    /\ max_size \in {n \in Capacities : static_assert(n)}
    /\ buf = [s \in 0..(max_size - 1) |-> DefaultT]
    /\ head = 0
    /\ tail = 0
    /\ op = NoOp
    /\ q = <<>>
    /\ q_out = <<>>
    /\ streak = NoStreak
    /\ p_pc = "idle" /\ p_item = <<>> /\ p_size = 0 /\ p_local_head = 0
    /\ p_local_tail = 0 /\ p_copy_size = 0 /\ p_i = 0
    /\ p_head_order = NoLoad /\ accepted = 0
    /\ c_pc = "idle" /\ c_size = 0 /\ c_local_head = 0 /\ c_local_tail = 0
    /\ c_copy_size = 0 /\ c_i = 0 /\ c_out = <<>>
    /\ c_tail_order = NoLoad /\ consumed = <<>>
    /\ racy = {} /\ old = [s \in 0..(max_size - 1) |-> DefaultT]


(***************************************************************************)
(* Observers of isolated mode: the reference FIFO queue and the monitor of *)
(* runs of push_back / pop_front calls.  Neither is read by an operation.  *)
(***************************************************************************)
fifo_room == max_size - 1 - Len(q)

fifo_insert(item, sz) == q \o SubSeq(item, 1, Min(sz, fifo_room))

fifo_front(sz) == SubSeq(q, 1, Min(sz, Len(q)))

fifo_remove(sz) == SubSeq(q, Min(sz, Len(q)) + 1, Len(q))

\* the array of the preceding call when that call was an append of a
\* non-null array to an empty buffer, <<>> otherwise
appended_to_empty ==
    IF op.name = "append" /\ ~op.is_null /\ op.before = 0 THEN op.item ELSE <<>>

\* a run of push_back calls that started on an empty buffer
streak_push(succeeded) ==
    LET n0 == IF streak.kind = "push" THEN streak.n
              ELSE IF get_data_size = 0 THEN 0 ELSE -1
    IN  IF n0 = -1 THEN NoStreak
        ELSE IF succeeded
             THEN [kind |-> IF n0 < max_size - 1 THEN "push" ELSE "bad", n |-> n0 + 1]
             ELSE [kind |-> IF n0 = max_size - 1 THEN "push_rejected" ELSE "bad",
                   n |-> n0]

\* a run of pop_front calls that follows a run of max_size - 1 push_back calls
streak_pop(succeeded) ==
    LET n0 == IF streak.kind = "pop" THEN streak.n
              ELSE IF streak.kind \in {"push", "push_rejected"}
                      /\ streak.n = max_size - 1 THEN 0 ELSE -1
    IN  IF n0 = -1 THEN NoStreak
        ELSE IF succeeded
             THEN [kind |-> IF n0 < max_size - 1 THEN "pop" ELSE "bad", n |-> n0 + 1]
             ELSE [kind |-> IF n0 = max_size - 1 THEN "pop_rejected" ELSE "bad",
                   n |-> n0]

(***************************************************************************)
(* Isolated mode (ThreadSafe = false): load and store are plain accesses   *)
(* and each public operation runs to completion.                           *)
(***************************************************************************)
push_back_publish_first(item) ==
    /\ IF full
       THEN /\ UNCHANGED <<buf, tail>>
            /\ op' = [NoOp EXCEPT !.name = "push_back", !.item = <<item>>,
                                  !.size = 1, !.ok = FALSE]
            /\ q' = fifo_insert(<<item>>, 1)
            /\ streak' = streak_push(FALSE)
       ELSE /\ tail' = next_cursor(tail, 1)
            /\ buf' = [buf EXCEPT ![next_cursor(tail, 1)] = item]
            /\ op' = [NoOp EXCEPT !.name = "push_back", !.item = <<item>>,
                                  !.size = 1, !.ok = TRUE, !.ret = 1]
            /\ q' = fifo_insert(<<item>>, 1)
            /\ streak' = streak_push(TRUE)
    /\ q_out' = <<>>
    /\ UNCHANGED <<max_size, head, threads>>

push_back_overwriting(item) ==
    /\ IF full
       THEN /\ buf' = [buf EXCEPT ![tail] = item]
            /\ tail' = next_cursor(tail, 1)
            /\ head' = next_cursor(head, 1)
            /\ op' = [NoOp EXCEPT !.name = "push_back", !.item = <<item>>,
                                  !.size = 1, !.ok = TRUE, !.ret = 1]
            /\ q' = fifo_insert(<<item>>, 1)
            /\ streak' = streak_push(TRUE)
       ELSE /\ buf' = [buf EXCEPT ![tail] = item]
            /\ tail' = next_cursor(tail, 1)
            /\ head' = head
            /\ op' = [NoOp EXCEPT !.name = "push_back", !.item = <<item>>,
                                  !.size = 1, !.ok = TRUE, !.ret = 1]
            /\ q' = fifo_insert(<<item>>, 1)
            /\ streak' = streak_push(TRUE)
    /\ q_out' = <<>>
    /\ UNCHANGED <<max_size, threads>>

\* bool push_back(const T &item) / bool push_back(T &&item)
push_back(item) ==
    /\ IF full
       THEN /\ UNCHANGED <<buf, tail>>
            /\ op' = [NoOp EXCEPT !.name = "push_back", !.item = <<item>>,
                                  !.size = 1, !.ok = FALSE]
            /\ q' = fifo_insert(<<item>>, 1)
            /\ streak' = streak_push(FALSE)
       ELSE /\ buf' = [buf EXCEPT ![tail] = item]
            /\ tail' = next_cursor(tail, 1)
            /\ op' = [NoOp EXCEPT !.name = "push_back", !.item = <<item>>,
                                  !.size = 1, !.ok = TRUE, !.ret = 1]
            /\ q' = fifo_insert(<<item>>, 1)
            /\ streak' = streak_push(TRUE)
    /\ q_out' = <<>>
    /\ UNCHANGED <<max_size, head, threads>>

\* size_t append(const T *item, size_t size)
append(is_null, item, sz) ==
    /\ IF sz = 0 \/ is_null
       THEN /\ UNCHANGED <<buf, tail, q>>
            /\ op' = [NoOp EXCEPT !.name = "append", !.item = item, !.size = sz,
                                  !.is_null = is_null, !.before = get_data_size]
       ELSE LET local_tail == tail
                copy_size == store_copy_size(head, local_tail, sz)
            IN  /\ buf' = copy_in(buf, local_tail, item, copy_size, 0)
                /\ tail' = next_cursor(local_tail, copy_size)
                /\ op' = [NoOp EXCEPT !.name = "append", !.item = item,
                                      !.size = sz, !.ret = copy_size,
                                      !.before = get_data_size]
                /\ q' = fifo_insert(item, sz)
    /\ q_out' = <<>>
    /\ streak' = NoStreak
    /\ UNCHANGED <<max_size, head, threads>>

pop_front_no_empty_check ==
    /\ head' = next_cursor(head, 1)
    /\ op' = [NoOp EXCEPT !.name = "pop_front", !.ret = 1, !.out = <<buf[head]>>]
    /\ streak' = streak_pop(TRUE)
    /\ q_out' = fifo_front(1)
    /\ q' = fifo_remove(1)
    /\ UNCHANGED <<max_size, buf, tail, threads>>

\* T pop_front()
pop_front ==
    /\ IF empty
       THEN /\ UNCHANGED head
            /\ op' = [NoOp EXCEPT !.name = "pop_front", !.ok = FALSE,
                                  !.out = <<DefaultT>>]
            /\ streak' = streak_pop(FALSE)
       ELSE /\ head' = next_cursor(head, 1)
            /\ op' = [NoOp EXCEPT !.name = "pop_front", !.ret = 1,
                                  !.out = <<buf[head]>>]
            /\ streak' = streak_pop(TRUE)
    /\ q_out' = fifo_front(1)
    /\ q' = fifo_remove(1)
    /\ UNCHANGED <<max_size, buf, tail, threads>>

\* bool pop_front(T &dest), dest holding Untouched before the call
pop_front_dest ==
    /\ IF empty
       THEN /\ UNCHANGED head
            /\ op' = [NoOp EXCEPT !.name = "pop_front_dest", !.ok = FALSE,
                                  !.out = <<Untouched>>]
            /\ streak' = streak_pop(FALSE)
       ELSE /\ head' = next_cursor(head, 1)
            /\ op' = [NoOp EXCEPT !.name = "pop_front_dest", !.ret = 1,
                                  !.out = <<buf[head]>>]
            /\ streak' = streak_pop(TRUE)
    /\ q_out' = fifo_front(1)
    /\ q' = fifo_remove(1)
    /\ UNCHANGED <<max_size, buf, tail, threads>>

read_ready_no_null_check(is_null, sz) ==
    /\ IF sz = 0
       THEN /\ UNCHANGED <<head, q>>
            /\ op' = [NoOp EXCEPT !.name = "read_ready", !.size = sz,
                                  !.is_null = is_null,
                                  !.out = out_array(IF is_null THEN 0 ELSE sz, <<>>)]
            /\ q_out' = <<>>
       ELSE LET local_head == head
                copy_size == read_copy_size(local_head, tail, sz)
            IN  /\ head' = next_cursor(local_head, copy_size)
                /\ op' = [NoOp EXCEPT !.name = "read_ready", !.size = sz,
                            !.is_null = is_null, !.ret = copy_size,
                            !.item = appended_to_empty,
                            !.out = out_array(sz, copy_out(buf, local_head, copy_size))]
                /\ q_out' = fifo_front(sz)
                /\ q' = fifo_remove(sz)
    /\ streak' = NoStreak
    /\ UNCHANGED <<max_size, buf, tail, threads>>

\* size_t read_ready(T *item, size_t size)
read_ready(is_null, sz) ==
    /\ IF sz = 0 \/ is_null
       THEN /\ UNCHANGED <<head, q>>
            /\ op' = [NoOp EXCEPT !.name = "read_ready", !.size = sz,
                                  !.is_null = is_null,
                                  !.out = out_array(IF is_null THEN 0 ELSE sz, <<>>)]
            /\ q_out' = <<>>
       ELSE LET local_head == head
                copy_size == read_copy_size(local_head, tail, sz)
            IN  /\ head' = next_cursor(local_head, copy_size)
                /\ op' = [NoOp EXCEPT !.name = "read_ready", !.size = sz,
                            !.ret = copy_size, !.item = appended_to_empty,
                            !.out = out_array(sz, copy_out(buf, local_head, copy_size))]
                /\ q_out' = fifo_front(sz)
                /\ q' = fifo_remove(sz)
    /\ streak' = NoStreak
    /\ UNCHANGED <<max_size, buf, tail, threads>>

peek_ready_advancing(is_null, sz) ==
    /\ IF sz = 0 \/ is_null
       THEN /\ op' = [NoOp EXCEPT !.name = "peek_ready", !.size = sz,
                                  !.is_null = is_null,
                                  !.out = out_array(IF is_null THEN 0 ELSE sz, <<>>)]
            /\ q_out' = <<>>
            /\ UNCHANGED head
       ELSE LET local_head == head
                copy_size == read_copy_size(local_head, tail, sz)
            IN  /\ op' = [NoOp EXCEPT !.name = "peek_ready", !.size = sz,
                            !.ret = copy_size,
                            !.out = out_array(sz, copy_out(buf, local_head, copy_size))]
                /\ q_out' = fifo_front(sz)
                /\ head' = next_cursor(local_head, copy_size)
    /\ streak' = NoStreak
    /\ UNCHANGED <<max_size, buf, tail, q, threads>>

\* size_t peek_ready(T *item, size_t size)
peek_ready(is_null, sz) ==
    /\ IF sz = 0 \/ is_null
       THEN /\ op' = [NoOp EXCEPT !.name = "peek_ready", !.size = sz,
                                  !.is_null = is_null,
                                  !.out = out_array(IF is_null THEN 0 ELSE sz, <<>>)]
            /\ q_out' = <<>>
       ELSE LET local_head == head
                full_data_size == data_size(local_head, tail)
                copy_size == IF full_data_size = 0 THEN 0
                             ELSE read_copy_size(local_head, tail, sz)
            IN  /\ op' = [NoOp EXCEPT !.name = "peek_ready", !.size = sz,
                            !.ret = copy_size,
                            !.out = out_array(sz, copy_out(buf, local_head, copy_size))]
                /\ q_out' = fifo_front(sz)
    /\ streak' = NoStreak
    /\ UNCHANGED <<engine, q, threads>>

advance_write_pointer_no_full_check(advance) ==
    /\ IF advance = 0
       THEN UNCHANGED tail
       ELSE tail' = next_cursor(tail, advance)
    /\ op' = [NoOp EXCEPT !.name = "advance_write_pointer", !.size = advance,
                          !.ok = ~(advance = 0 \/ full), !.before = get_data_size]
    /\ q' = stored(buf, head, tail')
    /\ q_out' = <<>>
    /\ streak' = NoStreak
    /\ UNCHANGED <<max_size, buf, head, threads>>

advance_write_pointer_clamped(advance) ==
    /\ IF advance = 0 \/ full
       THEN UNCHANGED tail
       ELSE tail' = next_cursor(tail, Min(advance, get_free_size))
    /\ op' = [NoOp EXCEPT !.name = "advance_write_pointer", !.size = advance,
                          !.ok = ~(advance = 0 \/ full), !.before = get_data_size]
    /\ q' = stored(buf, head, tail')
    /\ q_out' = <<>>
    /\ streak' = NoStreak
    /\ UNCHANGED <<max_size, buf, head, threads>>

advance_write_pointer_checks_empty(advance) ==
    /\ IF advance = 0 \/ empty
       THEN UNCHANGED tail
       ELSE tail' = next_cursor(tail, advance)
    /\ op' = [NoOp EXCEPT !.name = "advance_write_pointer", !.size = advance,
                          !.ok = ~(advance = 0 \/ empty), !.before = get_data_size]
    /\ q' = stored(buf, head, tail')
    /\ q_out' = <<>>
    /\ streak' = NoStreak
    /\ UNCHANGED <<max_size, buf, head, threads>>

\* void advance_write_pointer(size_t advance)
advance_write_pointer(advance) ==
    /\ IF advance = 0 \/ full
       THEN UNCHANGED tail
       ELSE tail' = next_cursor(tail, advance)
    /\ op' = [NoOp EXCEPT !.name = "advance_write_pointer", !.size = advance,
                          !.ok = ~(advance = 0 \/ full), !.before = get_data_size]
    /\ q' = stored(buf, head, tail')
    /\ q_out' = <<>>
    /\ streak' = NoStreak
    /\ UNCHANGED <<max_size, buf, head, threads>>

advance_read_pointer_no_empty_check(advance) ==
    /\ IF advance = 0
       THEN UNCHANGED head
       ELSE head' = next_cursor(head, advance)
    /\ op' = [NoOp EXCEPT !.name = "advance_read_pointer", !.size = advance,
                          !.ok = ~(advance = 0 \/ empty), !.before = get_data_size]
    /\ q' = stored(buf, head', tail)
    /\ q_out' = <<>>
    /\ streak' = NoStreak
    /\ UNCHANGED <<max_size, buf, tail, threads>>

advance_read_pointer_checks_full(advance) ==
    /\ IF advance = 0 \/ full
       THEN UNCHANGED head
       ELSE head' = next_cursor(head, advance)
    /\ op' = [NoOp EXCEPT !.name = "advance_read_pointer", !.size = advance,
                          !.ok = ~(advance = 0 \/ full), !.before = get_data_size]
    /\ q' = stored(buf, head', tail)
    /\ q_out' = <<>>
    /\ streak' = NoStreak
    /\ UNCHANGED <<max_size, buf, tail, threads>>

\* void advance_read_pointer(size_t advance)
advance_read_pointer(advance) ==
    /\ IF advance = 0 \/ empty
       THEN UNCHANGED head
       ELSE head' = next_cursor(head, advance)
    /\ op' = [NoOp EXCEPT !.name = "advance_read_pointer", !.size = advance,
                          !.ok = ~(advance = 0 \/ empty), !.before = get_data_size]
    /\ q' = stored(buf, head', tail)
    /\ q_out' = <<>>
    /\ streak' = NoStreak
    /\ UNCHANGED <<max_size, buf, tail, threads>>

reset_head_only ==
    /\ head' = 0
    /\ op' = [NoOp EXCEPT !.name = "reset"]
    /\ q' = stored(buf, 0, tail)
    /\ q_out' = <<>>
    /\ streak' = NoStreak
    /\ UNCHANGED <<max_size, buf, tail, threads>>

\* void reset()
reset ==
    /\ head' = 0
    /\ tail' = 0
    /\ op' = [NoOp EXCEPT !.name = "reset"]
    /\ q' = <<>>
    /\ q_out' = <<>>
    /\ streak' = NoStreak
    /\ UNCHANGED <<max_size, buf, threads>>

\* sizes passed along with a null pointer
NullSizes == {0, MaxLen}

\* the calls of append with an array of `sz` elements or with a null pointer
AppendCall ==
    \/ \E item \in AppendInputs : append(FALSE, item, Len(item))
    \/ \E sz \in NullSizes : append(TRUE, <<>>, sz)

ReadCall ==
    \/ \E sz \in 0..MaxLen : read_ready(FALSE, sz)
    \/ \E sz \in NullSizes : read_ready(TRUE, sz)

PeekCall ==
    \/ \E sz \in 0..MaxLen : peek_ready(FALSE, sz)
    \/ \E sz \in NullSizes : peek_ready(TRUE, sz)

PushCall == \E item \in Values : push_back(item)

NextFifo ==
    \/ PushCall
    \/ AppendCall
    \/ pop_front
    \/ pop_front_dest
    \/ ReadCall
    \/ PeekCall

Next ==
    \/ PushCall
    \/ AppendCall
    \/ pop_front
    \/ pop_front_dest
    \/ ReadCall
    \/ PeekCall
    \/ \E advance \in AdvanceInputs : advance_write_pointer(advance)
    \/ \E advance \in AdvanceInputs : advance_read_pointer(advance)
    \/ reset

Spec == Init /\ [][Next]_vars

(***************************************************************************)
(* The operations of isolated mode that only report: each records what it  *)
(* returned.                                                               *)
(***************************************************************************)
\* what a const operation leaves behind: nothing of the engine is assigned
reported ==
    /\ q_out' = <<>>
    /\ streak' = NoStreak
    /\ UNCHANGED <<engine, q, threads>>

\* size_t size() const
call_size ==
    /\ op' = [NoOp EXCEPT !.name = "size", !.ret = size]
    /\ reported

\* size_t capacity() const
call_capacity ==
    /\ op' = [NoOp EXCEPT !.name = "capacity", !.ret = capacity]
    /\ reported

\* bool empty() const
call_empty ==
    /\ op' = [NoOp EXCEPT !.name = "empty", !.ok = empty]
    /\ reported

\* bool full() const
call_full ==
    /\ op' = [NoOp EXCEPT !.name = "full", !.ok = full]
    /\ reported

\* size_t get_data_size() const
call_get_data_size ==
    /\ op' = [NoOp EXCEPT !.name = "get_data_size", !.ret = get_data_size]
    /\ reported

\* size_t get_free_size() const
call_get_free_size ==
    /\ op' = [NoOp EXCEPT !.name = "get_free_size", !.ret = get_free_size]
    /\ reported

\* T peek() const
peek ==
    /\ op' = [NoOp EXCEPT !.name = "peek", !.out = <<buf[head]>>]
    /\ reported

\* LinearBlock<T> get_write_linear_block_single()
get_write_linear_block_single ==
    /\ op' = [NoOp EXCEPT !.name = "get_write_linear_block_single",
                         !.view = write_linear_block(head, tail)]
    /\ reported

\* LinearBlock<T> get_read_linear_block_single()
get_read_linear_block_single ==
    /\ op' = [NoOp EXCEPT !.name = "get_read_linear_block_single",
                         !.view = read_linear_block(head, tail)]
    /\ reported

\* BufferSegments<T> get_write_segments()
get_write_segments ==
    /\ op' = [NoOp EXCEPT !.name = "get_write_segments",
                         !.view = write_segments(head, tail)]
    /\ reported

\* BufferSegments<T> get_read_segments()
get_read_segments ==
    /\ op' = [NoOp EXCEPT !.name = "get_read_segments",
                         !.view = read_segments(head, tail)]
    /\ reported

Queries ==
    \/ call_size
    \/ call_capacity
    \/ call_empty
    \/ call_full
    \/ call_get_data_size
    \/ call_get_free_size
    \/ peek
    \/ get_write_linear_block_single
    \/ get_read_linear_block_single
    \/ get_write_segments
    \/ get_read_segments

NextAll == Next \/ Queries

SpecAll == Init /\ [][NextAll]_vars

(***************************************************************************)
(* Cursor arithmetic on its own: every power-of-two capacity the width     *)
(* allows, every pair of cursor values below it.                           *)
(***************************************************************************)
PowersOfTwo == {2^k : k \in 0..SizeBits}

InitArith ==
    /\ max_size \in {n \in PowersOfTwo : static_assert(n)}
    /\ buf = [s \in 0..(max_size - 1) |-> DefaultT]
    /\ head \in 0..(max_size - 1)
    /\ tail \in 0..(max_size - 1)
    /\ op = NoOp
    /\ q = <<>>
    /\ q_out = <<>>
    /\ streak = NoStreak
    /\ p_pc = "idle" /\ p_item = <<>> /\ p_size = 0 /\ p_local_head = 0
    /\ p_local_tail = 0 /\ p_copy_size = 0 /\ p_i = 0
    /\ p_head_order = NoLoad /\ accepted = 0
    /\ c_pc = "idle" /\ c_size = 0 /\ c_local_head = 0 /\ c_local_tail = 0
    /\ c_copy_size = 0 /\ c_i = 0 /\ c_out = <<>>
    /\ c_tail_order = NoLoad /\ consumed = <<>>
    /\ racy = {} /\ old = [s \in 0..(max_size - 1) |-> DefaultT]

NextArith ==
    \/ call_get_data_size
    \/ call_size
    \/ call_get_free_size

SpecArith == InitArith /\ [][NextArith]_vars

(***************************************************************************)
(* The zero-copy path: the caller writes through the views of              *)
(* get_write_segments and publishes with advance_write_pointer, or reads   *)
(* through the views of get_read_segments and releases with                *)
(* advance_read_pointer.                                                   *)
(***************************************************************************)
\* the slot of the i-th element (from 1) reached through a pair of views:
\* first.data() + i - 1, then second.data() + i - 1 - first.size()
segments_slot(seg, i) ==
    IF i <= seg.first.b_size THEN seg.first.ptr + i - 1
    ELSE seg.second.ptr + i - 1 - seg.first.b_size

RECURSIVE write_through(_, _, _, _, _)
\* elements i.. of `item`, up to the k-th, written through the pair
write_through(b, seg, item, k, i) ==
    IF i > k THEN b
    ELSE write_through([b EXCEPT ![segments_slot(seg, i)] = item[i]],
                       seg, item, k, i + 1)

zero_copy_write_without_advance(item, k) ==
    /\ 0 < k /\ k <= get_free_size /\ k = Len(item)
    /\ buf' = write_through(buf, write_segments(head, tail), item, k, 1)
    /\ op' = [NoOp EXCEPT !.name = "zero_copy_write", !.item = item,
                          !.size = k, !.ret = k, !.before = get_data_size]
    /\ q' = fifo_insert(item, k)
    /\ q_out' = <<>>
    /\ streak' = NoStreak
    /\ UNCHANGED <<max_size, head, tail, threads>>

\* get_write_segments, k writes through the views, advance_write_pointer(k)
zero_copy_write(item, k) ==
    /\ 0 < k /\ k <= get_free_size /\ k = Len(item)
    /\ buf' = write_through(buf, write_segments(head, tail), item, k, 1)
    /\ IF k = 0 \/ full
       THEN UNCHANGED tail
       ELSE tail' = next_cursor(tail, k)
    /\ op' = [NoOp EXCEPT !.name = "zero_copy_write", !.item = item,
                          !.size = k, !.ret = k, !.before = get_data_size]
    /\ q' = fifo_insert(item, k)
    /\ q_out' = <<>>
    /\ streak' = NoStreak
    /\ UNCHANGED <<max_size, head, threads>>

\* get_read_segments, k reads through the views, advance_read_pointer(k)
zero_copy_read(k) ==
    /\ 0 < k /\ k <= get_data_size
    /\ LET seg == read_segments(head, tail)
       IN  op' = [NoOp EXCEPT !.name = "zero_copy_read", !.size = k, !.ret = k,
                    !.out = [i \in 1..k |-> buf[segments_slot(seg, i)]]]
    /\ IF k = 0 \/ empty
       THEN UNCHANGED head
       ELSE head' = next_cursor(head, k)
    /\ q_out' = fifo_front(k)
    /\ q' = fifo_remove(k)
    /\ streak' = NoStreak
    /\ UNCHANGED <<max_size, buf, tail, threads>>

NextZeroCopy ==
    \/ AppendCall
    \/ ReadCall
    \/ \E item \in AppendInputs : zero_copy_write(item, Len(item))
    \/ \E k \in 1..MaxLen : zero_copy_read(k)

SpecZeroCopy == Init /\ [][NextZeroCopy]_vars

\* the four view calls between single-element calls and cursor moves, which
\* take the cursors to every position and fill level
NextViews ==
    \/ PushCall
    \/ pop_front
    \/ pop_front_dest
    \/ \E advance \in AdvanceInputs : advance_write_pointer(advance)
    \/ \E advance \in AdvanceInputs : advance_read_pointer(advance)
    \/ reset
    \/ get_write_linear_block_single
    \/ get_read_linear_block_single
    \/ get_write_segments
    \/ get_read_segments

SpecViews == Init /\ [][NextViews]_vars

SpecFifo == Init /\ [][NextFifo]_vars

\* the capacities up to 4 that the static_assert lets through, max_size = 1
\* among them
AcceptedCapacities == {n \in 1..4 : static_assert(n)}

\* the state after construction, for every accepted capacity
InitAccepted ==
    /\ max_size \in AcceptedCapacities
    /\ buf = [s \in 0..(max_size - 1) |-> DefaultT]
    /\ head = 0
    /\ tail = 0
    /\ op = NoOp
    /\ q = <<>>
    /\ q_out = <<>>
    /\ streak = NoStreak
    /\ p_pc = "idle" /\ p_item = <<>> /\ p_size = 0 /\ p_local_head = 0
    /\ p_local_tail = 0 /\ p_copy_size = 0 /\ p_i = 0
    /\ p_head_order = NoLoad /\ accepted = 0
    /\ c_pc = "idle" /\ c_size = 0 /\ c_local_head = 0 /\ c_local_tail = 0
    /\ c_copy_size = 0 /\ c_i = 0 /\ c_out = <<>>
    /\ c_tail_order = NoLoad /\ consumed = <<>>
    /\ racy = {} /\ old = [s \in 0..(max_size - 1) |-> DefaultT]

SpecAccepted == InitAccepted /\ [][NextFifo]_vars

(***************************************************************************)
(* Concurrent mode (ThreadSafe = true).  head and tail are                 *)
(* std::atomic<size_t>; buf is plain memory.  Each thread takes one step   *)
(* per cursor load, cursor store or slot access.  The producer submits the *)
(* stream 1, 2, ..., StreamLen and re-submits what a call did not accept.  *)
(*                                                                         *)
(* A release store of a cursor synchronizes only with an acquire load of   *)
(* that cursor by the other thread.  A slot write that does not            *)
(* happen-before the consumer's read of the slot races with it: the read   *)
(* returns the new content or the content the slot held before the write.  *)
(* The producer's write of a slot is issued only after its load of head    *)
(* returned a value that the consumer stored, with release, after its      *)
(* reads of that slot, so a write never reaches an earlier read.           *)
(***************************************************************************)
\* load(var, order): the value of the atomic
load(var, order) == var

\* slots the producer wrote in the running call, before its store of tail
unpublished ==
    IF p_pc \in {"pb_store", "ap_copy", "ap_store"}
    THEN {slot_of(p_local_tail, p_copy_size, i) : i \in 0..(p_i - 1)}
    ELSE {}

\* the racy slots after the consumer loaded tail with `order`: an acquire load
\* reads the value of the producer's last release store of tail, so every
\* slot write sequenced before that store happens-before what follows
synchronized(order) ==
    IF order = Acquire THEN racy \cap unpublished ELSE racy

\* what a read of slot s by the consumer can return
slot_values(s) == IF s \in racy THEN {buf[s], old[s]} ELSE {buf[s]}

\* the slots the consumer is copying out in the running call
reading ==
    IF c_pc \in {"pf_read", "rr_copy", "pk_copy"}
    THEN {slot_of(c_local_head, c_copy_size, i) : i \in 0..(c_copy_size - 1)}
    ELSE {}

p_return(n) ==
    /\ p_pc' = "idle"
    /\ accepted' = accepted + n
    /\ p_item' = <<>> /\ p_size' = 0 /\ p_local_head' = 0 /\ p_local_tail' = 0
    /\ p_copy_size' = 0 /\ p_i' = 0 /\ p_head_order' = NoLoad

c_return(data) ==
    /\ c_pc' = "idle"
    /\ consumed' = consumed \o data
    /\ c_size' = 0 /\ c_local_head' = 0 /\ c_local_tail' = 0
    /\ c_copy_size' = 0 /\ c_i' = 0 /\ c_out' = <<>> /\ c_tail_order' = NoLoad

\* ---- producer: push_back(item) ------------------------------------------
P_call_push_back ==
    /\ p_pc = "idle" /\ accepted < StreamLen
    /\ p_pc' = "pb_full_head"
    /\ p_item' = stream(accepted, 1) /\ p_size' = 1
    /\ UNCHANGED <<p_local_head, p_local_tail, p_copy_size, p_i, p_head_order,
                   accepted, engine, observer, consumer, memory>>

\* full() -> get_free_size() -> get_data_size(): load(head, relaxed)
P_pb_full_head ==
    /\ p_pc = "pb_full_head"
    /\ p_local_head' = load(head, Relaxed)
    /\ p_head_order' = Relaxed
    /\ p_pc' = "pb_full_tail"
    /\ UNCHANGED <<p_item, p_size, p_local_tail, p_copy_size, p_i, accepted,
                   engine, observer, consumer, memory>>

\* get_data_size(): load(tail, relaxed); if (full()) return false
P_pb_full_tail ==
    /\ p_pc = "pb_full_tail"
    /\ IF free_size(p_local_head, load(tail, Relaxed)) = 0
       THEN p_return(0)
       ELSE /\ p_pc' = "pb_load_tail"
            /\ UNCHANGED <<p_item, p_size, p_local_head, p_local_tail,
                           p_copy_size, p_i, p_head_order, accepted>>
    /\ UNCHANGED <<engine, observer, consumer, memory>>

\* size_t local_tail = load(tail, std::memory_order_acquire)
P_pb_load_tail ==
    /\ p_pc = "pb_load_tail"
    /\ p_local_tail' = load(tail, Acquire)
    /\ p_copy_size' = 1 /\ p_i' = 0
    /\ p_pc' = "pb_write"
    /\ UNCHANGED <<p_item, p_size, p_local_head, p_head_order, accepted,
                   engine, observer, consumer, memory>>

\* buf[local_tail] = item
P_pb_write ==
    /\ p_pc = "pb_write"
    /\ buf' = [buf EXCEPT ![p_local_tail] = p_item[1]]
    /\ old' = [old EXCEPT ![p_local_tail] = buf[p_local_tail]]
    /\ racy' = racy \cup {p_local_tail}
    /\ p_i' = 1
    /\ p_pc' = "pb_store"
    /\ UNCHANGED <<p_item, p_size, p_local_head, p_local_tail, p_copy_size,
                   p_head_order, accepted, max_size, head, tail, observer,
                   consumer>>

\* store(tail, (local_tail + 1) & mask, release); return true
P_pb_store ==
    /\ p_pc = "pb_store"
    /\ tail' = next_cursor(p_local_tail, 1)
    /\ p_return(1)
    /\ UNCHANGED <<max_size, buf, head, observer, consumer, memory>>

\* ---- producer: append(item, size) ---------------------------------------
\* if (size == 0 || item == nullptr) return 0
P_call_append(sz) ==
    /\ p_pc = "idle" /\ accepted + sz <= StreamLen /\ accepted < StreamLen
    /\ IF sz = 0
       THEN p_return(0)
       ELSE /\ p_pc' = "ap_load_tail"
            /\ p_item' = stream(accepted, sz) /\ p_size' = sz
            /\ UNCHANGED <<p_local_head, p_local_tail, p_copy_size, p_i,
                           p_head_order, accepted>>
    /\ UNCHANGED <<engine, observer, consumer, memory>>

\* size_t local_tail = load(tail, std::memory_order_acquire)
P_ap_load_tail ==
    /\ p_pc = "ap_load_tail"
    /\ p_local_tail' = load(tail, Acquire)
    /\ p_pc' = "ap_load_head"
    /\ UNCHANGED <<p_item, p_size, p_local_head, p_copy_size, p_i,
                   p_head_order, accepted, engine, observer, consumer, memory>>

\* buf_store -> get_free_size(local_tail): load(head, relaxed); copy_size
P_ap_load_head ==
    /\ p_pc = "ap_load_head"
    /\ p_local_head' = load(head, Relaxed)
    /\ p_head_order' = Relaxed
    /\ p_copy_size' = store_copy_size(load(head, Relaxed), p_local_tail, p_size)
    /\ p_i' = 0
    /\ p_pc' = IF p_copy_size' = 0 THEN "ap_store" ELSE "ap_copy"
    /\ UNCHANGED <<p_item, p_size, p_local_tail, accepted, engine, observer,
                   consumer, memory>>

P_ap_copy_publish_each ==
    /\ p_pc = "ap_copy"
    /\ LET s == slot_of(p_local_tail, p_copy_size, p_i)
       IN  /\ buf' = [buf EXCEPT ![s] = p_item[p_i + 1]]
           /\ old' = [old EXCEPT ![s] = buf[s]]
           /\ racy' = racy \cup {s}
    /\ tail' = next_cursor(p_local_tail, p_i + 1)
    /\ p_i' = p_i + 1
    /\ p_pc' = IF p_i' = p_copy_size THEN "ap_store" ELSE "ap_copy"
    /\ UNCHANGED <<p_item, p_size, p_local_head, p_local_tail, p_copy_size,
                   p_head_order, accepted, max_size, head, observer, consumer>>

\* the memcpy / copy_n calls of buf_store, one element per step
P_ap_copy ==
    /\ p_pc = "ap_copy"
    /\ LET s == slot_of(p_local_tail, p_copy_size, p_i)
       IN  /\ buf' = [buf EXCEPT ![s] = p_item[p_i + 1]]
           /\ old' = [old EXCEPT ![s] = buf[s]]
           /\ racy' = racy \cup {s}
    /\ p_i' = p_i + 1
    /\ p_pc' = IF p_i' = p_copy_size THEN "ap_store" ELSE "ap_copy"
    /\ UNCHANGED <<p_item, p_size, p_local_head, p_local_tail, p_copy_size,
                   p_head_order, accepted, max_size, head, tail, observer,
                   consumer>>

\* store(tail, (local_tail + copy_size) & mask, release); return copy_size
P_ap_store ==
    /\ p_pc = "ap_store"
    /\ tail' = next_cursor(p_local_tail, p_copy_size)
    /\ p_return(p_copy_size)
    /\ UNCHANGED <<max_size, buf, head, observer, consumer, memory>>

\* ---- consumer: pop_front(dest) --------------------------------------------
C_call_pop_front ==
    /\ c_pc = "idle"
    /\ c_pc' = "pf_empty_head"
    /\ c_size' = 1
    /\ UNCHANGED <<c_local_head, c_local_tail, c_copy_size, c_i, c_out,
                   c_tail_order, consumed, engine, observer, producer, memory>>

\* empty() -> get_data_size(): load(head, relaxed)
C_pf_empty_head ==
    /\ c_pc = "pf_empty_head"
    /\ c_local_head' = load(head, Relaxed)
    /\ c_pc' = "pf_empty_tail"
    /\ UNCHANGED <<c_size, c_local_tail, c_copy_size, c_i, c_out, c_tail_order,
                   consumed, engine, observer, producer, memory>>

C_pf_empty_tail_compares_head ==
    /\ c_pc = "pf_empty_tail"
    /\ racy' = synchronized(Relaxed)
    /\ IF data_size(c_local_head, load(head, Relaxed)) = 0
       THEN c_return(<<>>)
       ELSE /\ c_local_tail' = load(tail, Relaxed)
            /\ c_tail_order' = Relaxed
            /\ c_pc' = "pf_load_head"
            /\ UNCHANGED <<c_size, c_local_head, c_copy_size, c_i, c_out,
                           consumed>>
    /\ UNCHANGED <<engine, observer, producer, old>>

\* get_data_size(): load(tail, relaxed); if (empty()) return false
C_pf_empty_tail ==
    /\ c_pc = "pf_empty_tail"
    /\ racy' = synchronized(Relaxed)
    /\ IF data_size(c_local_head, load(tail, Relaxed)) = 0
       THEN c_return(<<>>)
       ELSE /\ c_local_tail' = load(tail, Relaxed)
            /\ c_tail_order' = Relaxed
            /\ c_pc' = "pf_load_head"
            /\ UNCHANGED <<c_size, c_local_head, c_copy_size, c_i, c_out,
                           consumed>>
    /\ UNCHANGED <<engine, observer, producer, old>>

\* size_t local_head = load(head, std::memory_order_acquire)
C_pf_load_head ==
    /\ c_pc = "pf_load_head"
    /\ c_local_head' = load(head, Acquire)
    /\ c_copy_size' = 1 /\ c_i' = 0
    /\ c_pc' = "pf_read"
    /\ UNCHANGED <<c_size, c_local_tail, c_out, c_tail_order, consumed, engine,
                   observer, producer, memory>>

\* dest = std::move(buf[local_head])
C_pf_read ==
    /\ c_pc = "pf_read"
    /\ \E v \in slot_values(c_local_head) : c_out' = <<v>>
    /\ c_i' = 1
    /\ c_pc' = "pf_store"
    /\ UNCHANGED <<c_size, c_local_head, c_local_tail, c_copy_size,
                   c_tail_order, consumed, engine, observer, producer, memory>>

\* store(head, (local_head + 1) & mask, release); return true
C_pf_store ==
    /\ c_pc = "pf_store"
    /\ head' = next_cursor(c_local_head, 1)
    /\ c_return(c_out)
    /\ UNCHANGED <<max_size, buf, tail, observer, producer, memory>>

\* ---- consumer: read_ready(item, size) ------------------------------------
\* if (size == 0 || item == nullptr) return 0
C_call_read_ready(sz) ==
    /\ c_pc = "idle"
    /\ IF sz = 0
       THEN c_return(<<>>)
       ELSE /\ c_pc' = "rr_load_head"
            /\ c_size' = sz
            /\ UNCHANGED <<c_local_head, c_local_tail, c_copy_size, c_i, c_out,
                           c_tail_order, consumed>>
    /\ UNCHANGED <<engine, observer, producer, memory>>

\* size_t local_head = load(head, std::memory_order_acquire)
C_rr_load_head ==
    /\ c_pc = "rr_load_head"
    /\ c_local_head' = load(head, Acquire)
    /\ c_pc' = "rr_load_tail"
    /\ UNCHANGED <<c_size, c_local_tail, c_copy_size, c_i, c_out, c_tail_order,
                   consumed, engine, observer, producer, memory>>

\* buf_read -> get_data_size(local_head): load(tail, relaxed); copy_size
C_rr_load_tail ==
    /\ c_pc = "rr_load_tail"
    /\ c_local_tail' = load(tail, Relaxed)
    /\ c_tail_order' = Relaxed
    /\ racy' = synchronized(Relaxed)
    /\ c_copy_size' = read_copy_size(c_local_head, load(tail, Relaxed), c_size)
    /\ c_i' = 0
    /\ c_out' = <<>>
    /\ c_pc' = IF c_copy_size' = 0 THEN "rr_store" ELSE "rr_copy"
    /\ UNCHANGED <<c_size, c_local_head, consumed, engine, observer, producer,
                   old>>

\* the memcpy / copy_n calls of buf_read, one element per step
C_rr_copy ==
    /\ c_pc = "rr_copy"
    /\ \E v \in slot_values(slot_of(c_local_head, c_copy_size, c_i)) :
           c_out' = Append(c_out, v)
    /\ c_i' = c_i + 1
    /\ c_pc' = IF c_i' = c_copy_size THEN "rr_store" ELSE "rr_copy"
    /\ UNCHANGED <<c_size, c_local_head, c_local_tail, c_copy_size,
                   c_tail_order, consumed, engine, observer, producer, memory>>

\* store(head, (local_head + copy_size) & mask, release); return copy_size
C_rr_store ==
    /\ c_pc = "rr_store"
    /\ head' = next_cursor(c_local_head, c_copy_size)
    /\ c_return(c_out)
    /\ UNCHANGED <<max_size, buf, tail, observer, producer, memory>>

\* ---- consumer: peek_ready(item, size) ------------------------------------
\* if (size == 0 || item == nullptr) return 0
C_call_peek_ready(sz) ==
    /\ c_pc = "idle"
    /\ IF sz = 0
       THEN c_return(<<>>)
       ELSE /\ c_pc' = "pk_load_head"
            /\ c_size' = sz
            /\ UNCHANGED <<c_local_head, c_local_tail, c_copy_size, c_i, c_out,
                           c_tail_order, consumed>>
    /\ UNCHANGED <<engine, observer, producer, memory>>

\* size_t local_head = load(head, std::memory_order_acquire)
C_pk_load_head ==
    /\ c_pc = "pk_load_head"
    /\ c_local_head' = load(head, Acquire)
    /\ c_pc' = "pk_data_size"
    /\ UNCHANGED <<c_size, c_local_tail, c_copy_size, c_i, c_out, c_tail_order,
                   consumed, engine, observer, producer, memory>>

\* get_data_size(local_head): load(tail, relaxed); if (== 0) return 0
C_pk_data_size ==
    /\ c_pc = "pk_data_size"
    /\ racy' = synchronized(Relaxed)
    /\ IF data_size(c_local_head, load(tail, Relaxed)) = 0
       THEN c_return(<<>>)
       ELSE /\ c_pc' = "pk_load_tail"
            /\ UNCHANGED <<c_size, c_local_head, c_local_tail, c_copy_size, c_i,
                           c_out, c_tail_order, consumed>>
    /\ UNCHANGED <<engine, observer, producer, old>>

\* buf_read -> get_data_size(local_head): load(tail, relaxed); copy_size
C_pk_load_tail ==
    /\ c_pc = "pk_load_tail"
    /\ racy' = synchronized(Relaxed)
    /\ IF read_copy_size(c_local_head, load(tail, Relaxed), c_size) = 0
       THEN c_return(<<>>)
       ELSE /\ c_local_tail' = load(tail, Relaxed)
            /\ c_tail_order' = Relaxed
            /\ c_copy_size' =
                   read_copy_size(c_local_head, load(tail, Relaxed), c_size)
            /\ c_i' = 0
            /\ c_out' = <<>>
            /\ c_pc' = "pk_copy"
            /\ UNCHANGED <<c_size, c_local_head, consumed>>
    /\ UNCHANGED <<engine, observer, producer, old>>

\* the memcpy / copy_n calls of buf_read, one element per step; return
\* copy_size without a store of head
C_pk_copy ==
    /\ c_pc = "pk_copy"
    /\ \E v \in slot_values(slot_of(c_local_head, c_copy_size, c_i)) :
           c_out' = Append(c_out, v)
    /\ IF c_i + 1 = c_copy_size
       THEN /\ c_pc' = "idle"
            /\ c_size' = 0 /\ c_local_head' = 0 /\ c_local_tail' = 0
            /\ c_copy_size' = 0 /\ c_i' = 0 /\ c_tail_order' = NoLoad
       ELSE /\ c_i' = c_i + 1
            /\ UNCHANGED <<c_pc, c_size, c_local_head, c_local_tail,
                           c_copy_size, c_tail_order>>
    /\ UNCHANGED <<consumed, engine, observer, producer, memory>>

Producer ==
    \/ P_call_push_back
    \/ P_pb_full_head
    \/ P_pb_full_tail
    \/ P_pb_load_tail
    \/ P_pb_write
    \/ P_pb_store
    \/ \E sz \in 0..MaxChunk : P_call_append(sz)
    \/ P_ap_load_tail
    \/ P_ap_load_head
    \/ P_ap_copy
    \/ P_ap_store

Consumer ==
    \/ C_call_pop_front
    \/ C_pf_empty_head
    \/ C_pf_empty_tail
    \/ C_pf_load_head
    \/ C_pf_read
    \/ C_pf_store
    \/ \E sz \in 0..MaxChunk : C_call_read_ready(sz)
    \/ C_rr_load_head
    \/ C_rr_load_tail
    \/ C_rr_copy
    \/ C_rr_store
    \/ \E sz \in 0..MaxChunk : C_call_peek_ready(sz)
    \/ C_pk_load_head
    \/ C_pk_data_size
    \/ C_pk_load_tail
    \/ C_pk_copy

NextConc == Producer \/ Consumer

SpecConc == Init /\ [][NextConc]_vars

(***************************************************************************)
(* Views in concurrent mode.  A view call loads the caller's own cursor    *)
(* with acquire and the other cursor with relaxed ordering; the caller     *)
(* then holds the view while the other thread runs, and gives it up before *)
(* its next call.                                                          *)
(***************************************************************************)
\* ---- producer: get_write_linear_block_single() / get_write_segments() ----
\* size_t local_tail = load(tail, std::memory_order_acquire)
P_call_get_write_linear_block_single ==
    /\ p_pc = "idle"
    /\ p_local_tail' = load(tail, Acquire)
    /\ p_pc' = "wb_load_head"
    /\ UNCHANGED <<p_item, p_size, p_local_head, p_copy_size, p_i,
                   p_head_order, accepted, engine, observer, consumer, memory>>

\* size_t local_tail = load(tail, std::memory_order_acquire)
P_call_get_write_segments ==
    /\ p_pc = "idle"
    /\ p_local_tail' = load(tail, Acquire)
    /\ p_pc' = "ws_load_head"
    /\ UNCHANGED <<p_item, p_size, p_local_head, p_copy_size, p_i,
                   p_head_order, accepted, engine, observer, consumer, memory>>

\* get_free_size(local_tail): load(head, relaxed); return the view
P_wv_load_head ==
    /\ p_pc \in {"wb_load_head", "ws_load_head"}
    /\ p_local_head' = load(head, Relaxed)
    /\ p_head_order' = Relaxed
    /\ p_pc' = IF p_pc = "wb_load_head" THEN "wb_hold" ELSE "ws_hold"
    /\ UNCHANGED <<p_item, p_size, p_local_tail, p_copy_size, p_i, accepted,
                   engine, observer, consumer, memory>>

\* the producer is done with the view
P_wv_release ==
    /\ p_pc \in {"wb_hold", "ws_hold"}
    /\ p_return(0)
    /\ UNCHANGED <<engine, observer, consumer, memory>>

\* ---- consumer: get_read_linear_block_single() / get_read_segments() ------
\* size_t local_head = load(head, std::memory_order_acquire)
C_call_get_read_linear_block_single ==
    /\ c_pc = "idle"
    /\ c_local_head' = load(head, Acquire)
    /\ c_pc' = "rb_load_tail"
    /\ UNCHANGED <<c_size, c_local_tail, c_copy_size, c_i, c_out, c_tail_order,
                   consumed, engine, observer, producer, memory>>

\* size_t local_head = load(head, std::memory_order_acquire)
C_call_get_read_segments ==
    /\ c_pc = "idle"
    /\ c_local_head' = load(head, Acquire)
    /\ c_pc' = "rs_load_tail"
    /\ UNCHANGED <<c_size, c_local_tail, c_copy_size, c_i, c_out, c_tail_order,
                   consumed, engine, observer, producer, memory>>

\* get_data_size(local_head): load(tail, relaxed); return the view
C_rv_load_tail ==
    /\ c_pc \in {"rb_load_tail", "rs_load_tail"}
    /\ c_local_tail' = load(tail, Relaxed)
    /\ c_tail_order' = Relaxed
    /\ racy' = synchronized(Relaxed)
    /\ c_pc' = IF c_pc = "rb_load_tail" THEN "rb_hold" ELSE "rs_hold"
    /\ UNCHANGED <<c_size, c_local_head, c_copy_size, c_i, c_out, consumed,
                   engine, observer, producer, old>>

\* the consumer is done with the view
C_rv_release ==
    /\ c_pc \in {"rb_hold", "rs_hold"}
    /\ c_return(<<>>)
    /\ UNCHANGED <<engine, observer, producer, memory>>

\* the slots of the view the producer holds
p_view ==
    IF p_pc = "wb_hold"
    THEN block_slots(write_linear_block(p_local_head, p_local_tail))
    ELSE IF p_pc = "ws_hold"
         THEN segments_slots(write_segments(p_local_head, p_local_tail))
         ELSE {}

\* the slots of the view the consumer holds
c_view ==
    IF c_pc = "rb_hold"
    THEN block_slots(read_linear_block(c_local_head, c_local_tail))
    ELSE IF c_pc = "rs_hold"
         THEN segments_slots(read_segments(c_local_head, c_local_tail))
         ELSE {}

ProducerViews ==
    \/ P_call_get_write_linear_block_single
    \/ P_call_get_write_segments
    \/ P_wv_load_head
    \/ P_wv_release

ConsumerViews ==
    \/ C_call_get_read_linear_block_single
    \/ C_call_get_read_segments
    \/ C_rv_load_tail
    \/ C_rv_release

NextConcViews == NextConc \/ ProducerViews \/ ConsumerViews

SpecConcViews == Init /\ [][NextConcViews]_vars

(***************************************************************************)
(* The polling loops: the producer re-submits what is left of the stream   *)
(* with push_back or append of at least one element, the consumer polls    *)
(* with pop_front or read_ready of at least one element.  Each thread runs *)
(* as long as it has a step to take: it is scheduled again and again.      *)
(***************************************************************************)
ProducerLoop ==
    \/ P_call_push_back
    \/ P_pb_full_head
    \/ P_pb_full_tail
    \/ P_pb_load_tail
    \/ P_pb_write
    \/ P_pb_store
    \/ \E sz \in 1..MaxChunk : P_call_append(sz)
    \/ P_ap_load_tail
    \/ P_ap_load_head
    \/ P_ap_copy
    \/ P_ap_store

ConsumerLoop ==
    \/ C_call_pop_front
    \/ C_pf_empty_head
    \/ C_pf_empty_tail
    \/ C_pf_load_head
    \/ C_pf_read
    \/ C_pf_store
    \/ \E sz \in 1..MaxChunk : C_call_read_ready(sz)
    \/ C_rr_load_head
    \/ C_rr_load_tail
    \/ C_rr_copy
    \/ C_rr_store

NextLoop == ProducerLoop \/ ConsumerLoop

SpecLoop ==
    /\ Init
    /\ [][NextLoop]_vars
    /\ WF_vars(ProducerLoop)
    /\ WF_vars(ConsumerLoop)

(***************************************************************************)
(* Properties.                                                             *)
(***************************************************************************)
\* the calls that remove or copy out stored elements in isolated mode
Removals == {"pop_front", "pop_front_dest", "read_ready", "peek_ready"}

\* C1: after any sequence of operations (advance_* with arbitrary n and bulk
\* sizes above the capacity included) size() + get_free_size() equals
\* capacity() - 1 and 0 <= size() <= max_size - 1.
C1_CapacityInvariant ==
    /\ size + get_free_size = capacity - 1
    /\ 0 <= size
    /\ size <= max_size - 1

C1_Witness ==
    /\ op.name = "advance_write_pointer"
    /\ op.size >= max_size
    /\ tail < head
    /\ size > 0

\* C2: both cursors stay in [0, max_size) in every reachable state, whatever
\* the operation and its argument.
C2_CursorsPreWrapped ==
    /\ head \in 0..(max_size - 1)
    /\ tail \in 0..(max_size - 1)

C2_Witness ==
    /\ op.name = "advance_read_pointer"
    /\ op.size = SizeMax
    /\ head # 0
    /\ tail # 0

\* C3: without advance_* calls the engine refines a FIFO queue of capacity
\* max_size - 1: size() is the length of the queue, the stored elements are
\* the queue, and every removal hands out the oldest elements in order.
C3_RefinesFifo ==
    /\ size = Len(q)
    /\ contents = q
    /\ op.name \in Removals => SubSeq(op.out, 1, op.ret) = q_out

C3_Witness ==
    /\ op.name = "read_ready"
    /\ op.ret >= 2
    /\ 0 < head
    /\ head < op.ret
    /\ size > 0

\* everything the consumer has read so far, the running call included
read_so_far ==
    consumed \o (IF c_pc \in {"pf_store", "rr_copy", "rr_store"} THEN c_out ELSE <<>>)

\* C4: what the consumer has read is at every moment a prefix of what the
\* producer's calls reported as accepted (the stream 1, 2, ..., accepted).
C4_ReadIsPrefixOfAccepted ==
    /\ Len(read_so_far) <= accepted
    /\ \A i \in 1..Len(read_so_far) : read_so_far[i] = i

\* the slot the producer writes in its next step
writing ==
    IF p_pc = "pb_write" THEN {p_local_tail}
    ELSE IF p_pc = "ap_copy" THEN {slot_of(p_local_tail, p_copy_size, p_i)}
    ELSE {}

\* C5: the producer never writes a slot of the occupied range, nor a slot the
\* consumer is copying out.
C5_NoWriteToUnreleasedSlot ==
    \A s \in writing : s \notin occupied /\ s \notin reading

C5_Witness ==
    /\ p_pc = "ap_copy"
    /\ c_pc = "rr_copy"
    /\ c_i > 0
    /\ tail < head

\* C6: a consumer operation that reads slots has loaded the write cursor with
\* acquire ordering before it reads them.
C6_TailLoadedWithAcquire ==
    c_pc \in {"pf_read", "rr_copy", "pk_copy"} => c_tail_order = Acquire

\* C7: a producer operation that writes slots has loaded the read cursor with
\* acquire ordering before it writes them.
C7_HeadLoadedWithAcquire ==
    p_pc \in {"pb_write", "ap_copy"} => p_head_order = Acquire

\* C8: a call changes its cursor in one step, the store that ends the call,
\* after all of the call's slot accesses, and to the final value.
C8_CursorPublishedLastAndOnce ==
    [][/\ tail' # tail =>
            /\ p_pc \in {"pb_store", "ap_store"}
            /\ p_i = p_copy_size
            /\ tail' = next_cursor(p_local_tail, p_copy_size)
            /\ p_pc' = "idle"
       /\ head' # head =>
            /\ c_pc \in {"pf_store", "rr_store"}
            /\ c_i = c_copy_size
            /\ head' = next_cursor(c_local_head, c_copy_size)
            /\ c_pc' = "idle"]_vars

C8_Witness ==
    /\ accepted = StreamLen
    /\ Len(consumed) = StreamLen
    /\ p_pc = "idle"
    /\ c_pc = "idle"

\* C9: push_back on a full buffer returns false and leaves both cursors and
\* every slot as they were; otherwise it returns true, stores the item at the
\* write cursor and size() grows by one.
C9_PushBack ==
    [][op'.name = "push_back" =>
         IF size = max_size - 1
         THEN /\ ~op'.ok
              /\ head' = head /\ tail' = tail /\ buf' = buf
              /\ size' = max_size - 1
         ELSE /\ op'.ok
              /\ buf'[tail] = op'.item[1]
              /\ size' = size + 1]_vars

C9_Witness ==
    /\ op.name = "push_back"
    /\ ~op.ok
    /\ size = max_size - 1
    /\ tail < head

\* C10: full() holds exactly when size() = max_size - 1 and empty() exactly
\* when size() = 0; from an empty buffer exactly max_size - 1 push_back calls
\* in a row succeed, full() holds then and the next push_back fails; after
\* max_size - 1 pop_front calls empty() holds again.
C10_FullEmpty ==
    /\ full <=> size = max_size - 1
    /\ empty <=> size = 0
    /\ streak.kind # "bad"
    /\ streak.kind = "push" => size = streak.n
    /\ streak.kind = "push" /\ streak.n = max_size - 1 => full
    /\ streak.kind = "push_rejected" => full /\ op.name = "push_back" /\ ~op.ok
    /\ streak.kind = "pop" => size = max_size - 1 - streak.n
    /\ streak.kind = "pop" /\ streak.n = max_size - 1 => empty

C10_Witness ==
    /\ streak.kind = "pop"
    /\ streak.n = max_size - 1
    /\ max_size = 4

\* a call of a bulk operation with a non-null pointer and a length above 0
valid_call(o, name) == o.name = name /\ ~o.is_null /\ o.size > 0

\* C11: append of a non-null array of n > 0 elements returns
\* min(n, get_free_size()) as measured before the call, size() grows by that
\* count, and the first that-many input elements follow the existing data in
\* input order, wrapping at the physical end; n above max_size included.
C11_AppendCopiesMinOfSizeAndFree ==
    [][valid_call(op', "append") =>
         /\ op'.ret = Min(op'.size, get_free_size)
         /\ size' = size + op'.ret
         /\ contents' = contents \o SubSeq(op'.item, 1, op'.ret)
         /\ \A i \in 1..op'.ret :
                buf'[(tail + i - 1) % max_size] = op'.item[i]]_vars

C11_Witness ==
    /\ valid_call(op, "append")
    /\ op.size > max_size
    /\ op.ret >= 2
    /\ 0 < tail
    /\ tail < op.ret

\* C12: an append that stores fewer elements than it was given leaves the
\* read cursor and every unread element as they were: the elements stored
\* before the call are still the first ones the buffer holds, unchanged.
C12_TruncatedAppendKeepsUnread ==
    [][valid_call(op', "append") /\ op'.ret < op'.size =>
         /\ head' = head
         /\ \A s \in occupied : buf'[s] = buf[s]
         /\ Len(contents') >= Len(contents)
         /\ SubSeq(contents', 1, Len(contents)) = contents]_vars

C12_Witness ==
    /\ valid_call(op, "append")
    /\ op.ret > 0
    /\ op.ret < op.size
    /\ op.before > 0
    /\ full
    /\ tail < head

\* C13: read_ready into a non-null array of n > 0 elements returns
\* min(n, size()) as measured before the call, hands out the oldest that-many
\* elements in order (the run up to the physical end, then the wrapped rest),
\* size() shrinks by that count, the array past the count is untouched, and
\* on an empty buffer it returns 0 and changes nothing.
C13_ReadReadyCopiesOldest ==
    [][valid_call(op', "read_ready") =>
         /\ op'.ret = Min(op'.size, size)
         /\ Len(op'.out) = op'.size
         /\ SubSeq(op'.out, 1, op'.ret) = SubSeq(contents, 1, op'.ret)
         /\ \A i \in 1..op'.ret : op'.out[i] = buf[(head + i - 1) % max_size]
         /\ \A i \in (op'.ret + 1)..op'.size : op'.out[i] = Untouched
         /\ size' = size - op'.ret
         /\ contents' = SubSeq(contents, op'.ret + 1, size)
         /\ (size = 0 => (op'.ret = 0 /\ UNCHANGED engine))]_vars

C13_Witness ==
    /\ valid_call(op, "read_ready")
    /\ op.ret >= 2
    /\ op.ret < op.size
    /\ 0 < head
    /\ head < op.ret

\* C14: when an append of an array S of 1..max_size - 1 elements to an empty
\* buffer is directly followed by a read_ready of Len(S) elements, the read
\* returns Len(S), hands out exactly S and leaves the buffer empty, wherever
\* the cursors stood.
C14_RoundTrip ==
    [][/\ valid_call(op, "append")
       /\ op.before = 0
       /\ Len(op.item) = op.size
       /\ op.size <= max_size - 1
       /\ valid_call(op', "read_ready")
       /\ op'.size = op.size
       => /\ op'.ret = op.size
          /\ SubSeq(op'.out, 1, op.size) = op.item
          /\ empty']_vars

C14_Witness ==
    /\ valid_call(op, "read_ready")
    /\ op.item # <<>>
    /\ Len(op.item) = op.size
    /\ op.size = max_size - 1
    /\ max_size = 4
    /\ op.ret = op.size
    /\ 0 < head
    /\ head < op.size

\* C15: peek_ready returns the count and the elements read_ready returns in
\* the same state and leaves both cursors and every slot as they were; a
\* peek_ready or read_ready that directly follows with the same arguments
\* returns the same count and the same array.
C15_PeekReadyIsReadWithoutAdvance ==
    [][/\ op'.name = "peek_ready" =>
         /\ UNCHANGED <<head, tail, buf>>
         /\ op'.ret = IF op'.is_null \/ op'.size = 0 THEN 0
                       ELSE read_copy_size(head, tail, op'.size)
         /\ op'.ret = IF op'.is_null \/ op'.size = 0 THEN 0
                       ELSE Min(op'.size, size)
         /\ SubSeq(op'.out, 1, op'.ret) = copy_out(buf, head, op'.ret)
         /\ (op.name = "peek_ready" /\ op'.size = op.size
                /\ op'.is_null = op.is_null
             => (op'.ret = op.ret /\ op'.out = op.out))
       /\ (op.name = "peek_ready" /\ op'.name = "read_ready"
              /\ op'.size = op.size /\ op'.is_null = op.is_null
           => (op'.ret = op.ret /\ op'.out = op.out))]_vars

C15_Witness ==
    /\ valid_call(op, "peek_ready")
    /\ op.ret >= 2
    /\ op.ret < size
    /\ head + op.ret > max_size

\* the bulk operations, which take a pointer and a length
BulkCalls == {"append", "read_ready", "peek_ready"}

\* C16: append, read_ready and peek_ready called with a null pointer or with
\* length 0 return 0 and leave both cursors and every slot as they were,
\* whatever the buffer holds.
C16_InvalidArgumentsChangeNothing ==
    [][op'.name \in BulkCalls /\ (op'.is_null \/ op'.size = 0) =>
         /\ op'.ret = 0
         /\ UNCHANGED <<head, tail, buf>>]_vars

C16_Witness ==
    /\ op.name = "read_ready"
    /\ op.is_null
    /\ op.size > 0
    /\ op.ret = 0
    /\ full
    /\ tail < head

\* C17: on an empty buffer pop_front() returns a default-constructed value,
\* pop_front(dest) returns false and leaves dest as it was, and both cursors
\* stay where they were; on a non-empty buffer both return the element at
\* the read cursor and size() shrinks by one.
C17_PopFront ==
    [][op'.name \in {"pop_front", "pop_front_dest"} =>
         IF size = 0
         THEN /\ ~op'.ok
              /\ op'.name = "pop_front" => op'.out = <<DefaultT>>
              /\ op'.name = "pop_front_dest" => op'.out = <<Untouched>>
              /\ head' = head /\ tail' = tail
              /\ size' = 0
         ELSE /\ op'.ok
              /\ op'.out = <<buf[head]>>
              /\ size' = size - 1]_vars

C17_Witness ==
    /\ op.name = "pop_front_dest"
    /\ ~op.ok
    /\ op.out = <<Untouched>>
    /\ empty
    /\ head # 0

\* C18: advance_write_pointer(n) leaves both cursors and size() as they were
\* whenever n = 0 or the buffer is full, whatever n is; with max_size = 4,
\* advance_write_pointer(3) on an empty buffer gives size() = 3 and a further
\* advance_write_pointer(1) leaves size() = 3.
C18_AdvanceWriteNoOp ==
    [][op'.name = "advance_write_pointer" =>
         /\ (op'.size = 0 \/ size = max_size - 1) =>
                (head' = head /\ tail' = tail /\ size' = size)
         /\ (max_size = 4 /\ size = 0 /\ op'.size = 3) => size' = 3
         /\ (max_size = 4 /\ size = 3 /\ op'.size = 1) => size' = 3]_vars

C18_Witness ==
    /\ op.name = "advance_write_pointer"
    /\ max_size = 4
    /\ op.size = 1
    /\ op.before = 3
    /\ ~op.ok
    /\ size = 3
    /\ tail < head

\* C19: advance_write_pointer(n) with n > 0 on a buffer that is not full sets
\* the write cursor to (tail + n) mod max_size and leaves the read cursor,
\* so size() becomes (size() + n) mod max_size: n = max_size - 1 on an empty
\* buffer gives max_size - 1 and n = max_size gives 0.
C19_AdvanceWriteIsModular ==
    [][op'.name = "advance_write_pointer" /\ op'.size > 0
            /\ size # max_size - 1 =>
         /\ tail' = (tail + op'.size) % max_size
         /\ head' = head
         /\ size' = (size + op'.size) % max_size
         /\ (size = 0 /\ op'.size = max_size - 1) => size' = max_size - 1
         /\ (size = 0 /\ op'.size = max_size) => size' = 0]_vars

C19_Witness ==
    /\ op.name = "advance_write_pointer"
    /\ max_size = 4
    /\ op.size = max_size
    /\ op.before = 0
    /\ op.ok
    /\ size = 0
    /\ tail # 0

EmptyBlock == LinearBlock(Null, 0)
EmptyPair == BufferSegments(EmptyBlock, EmptyBlock)

\* C21: get_write_linear_block_single returns the empty view exactly when
\* the buffer is full and otherwise the view at the write cursor of length
\* min(get_free_size(), max_size - tail); get_read_linear_block_single
\* returns the empty view exactly when the buffer is empty and otherwise the
\* view at the read cursor of length min(size(), max_size - head).  Neither
\* call moves a cursor.
C21_LinearBlocks ==
    [][/\ op'.name = "get_write_linear_block_single" =>
            /\ UNCHANGED <<head, tail>>
            /\ op'.view = EmptyBlock <=> size = max_size - 1
            /\ size # max_size - 1 =>
                   op'.view = LinearBlock(tail, Min(max_size - 1 - size,
                                                   max_size - tail))
       /\ op'.name = "get_read_linear_block_single" =>
            /\ UNCHANGED <<head, tail>>
            /\ op'.view = EmptyBlock <=> size = 0
            /\ size # 0 =>
                   op'.view = LinearBlock(head, Min(size, max_size - head))]_vars

C21_Witness ==
    /\ op.name = "get_write_linear_block_single"
    /\ op.view.b_size > 0
    /\ op.view.b_size < get_free_size
    /\ op.view.ptr + op.view.b_size = max_size

\* C22: the pair returned by get_write_segments covers all free space:
\* first.size() + second.size() = get_free_size(), first starts at the write
\* cursor with length min(free, max_size - tail), a non-empty second starts
\* at index 0 with the rest, the pair is empty exactly when the buffer is
\* full, and no covered slot is occupied.
C22_WriteSegmentsCoverFreeSpace ==
    [][op'.name = "get_write_segments" =>
         LET free == max_size - 1 - size
             v == op'.view
         IN  /\ total_size(v) = free
             /\ v = EmptyPair <=> free = 0
             /\ segments_empty(v) <=> free = 0
             /\ free # 0 =>
                    /\ v.first = LinearBlock(tail, Min(free, max_size - tail))
                    /\ v.second.b_size = free - v.first.b_size
                    /\ v.second.b_size > 0 => v.second.ptr = 0
                    /\ v.second.b_size = 0 => v.second.ptr = Null
             /\ segments_slots(v) \cap occupied = {}
             /\ Cardinality(segments_slots(v)) = free]_vars

C22_Witness ==
    /\ op.name = "get_write_segments"
    /\ op.view.second.b_size > 0
    /\ op.view.first.b_size > 0
    /\ size > 0

\* C23: the pair returned by get_read_segments covers all stored elements
\* in order: first.size() + second.size() = size(); when the data wraps the
\* physical end the pair is not linear, first runs to the end and second
\* starts at index 0; the elements of first followed by those of second are
\* what read_ready(size()) hands out; the pair is empty exactly when the
\* buffer is empty.
C23_ReadSegmentsCoverData ==
    [][op'.name = "get_read_segments" =>
         LET v == op'.view
         IN  /\ total_size(v) = size
             /\ v = EmptyPair <=> size = 0
             /\ segments_empty(v) <=> size = 0
             /\ head + size > max_size =>
                    /\ ~is_linear(v)
                    /\ v.first = LinearBlock(head, max_size - head)
                    /\ v.second.ptr = 0
             /\ head + size <= max_size => is_linear(v)
             /\ segments_elements(buf, v)
                    = copy_out(buf, head, read_copy_size(head, tail, size))
             /\ \A i \in 1..size :
                    segments_elements(buf, v)[i] = buf[(head + i - 1) % max_size]]_vars

C23_Witness ==
    /\ op.name = "get_read_segments"
    /\ ~is_linear(op.view)
    /\ op.view.second.b_size >= 2
    /\ buf[0] # buf[1]

\* the calls that return a pair of views
SegmentCalls == {"get_write_segments", "get_read_segments"}

\* C24: in every pair returned by get_write_segments or get_read_segments
\* second is non-empty only if first ends at the physical end of storage,
\* is_linear() holds exactly when second is empty, both views lie inside
\* the storage indices 0..max_size - 1, and the two views share no slot.
C24_SegmentPairShape ==
    op.name \in SegmentCalls =>
        LET v == op.view
        IN  /\ ~block_empty(v.second) => v.first.ptr + v.first.b_size = max_size
            /\ is_linear(v) <=> v.second.b_size = 0
            /\ v.second.b_size = 0 <=> v.second.ptr = Null
            /\ v.first.b_size = 0 <=> v.first.ptr = Null
            /\ segments_slots(v) \subseteq 0..(max_size - 1)
            /\ block_slots(v.first) \cap block_slots(v.second) = {}
            /\ Cardinality(block_slots(v.first)) = v.first.b_size
            /\ Cardinality(block_slots(v.second)) = v.second.b_size

C24_Witness ==
    /\ op.name = "get_write_segments"
    /\ ~is_linear(op.view)
    /\ op.view.first.ptr + op.view.first.b_size = max_size
    /\ op.view.second.b_size >= 2

\* C25: reset() from any reachable state sets both cursors to 0, their
\* values after construction; then empty() holds, size() = 0,
\* get_free_size() = max_size - 1 and every result computed from the cursors
\* is the one of a new buffer.
C25_ResetIsFresh ==
    [][op'.name = "reset" =>
         /\ head' = 0 /\ tail' = 0
         /\ empty' /\ ~full'
         /\ size' = 0
         /\ get_free_size' = max_size - 1
         /\ write_linear_block(head', tail') = LinearBlock(0, max_size - 1)
         /\ read_linear_block(head', tail') = EmptyBlock
         /\ write_segments(head', tail')
                = BufferSegments(LinearBlock(0, max_size - 1), EmptyBlock)
         /\ read_segments(head', tail') = EmptyPair
         /\ buf' = buf]_vars

C25_Witness ==
    /\ op.name = "reset"
    /\ max_size = 4
    /\ buf[max_size - 1] # DefaultT
    /\ buf[0] # DefaultT
    /\ head = 0 /\ tail = 0

\* C27: (tail - head) in size_t arithmetic masked with max_size - 1 equals
\* (tail - head) mod max_size for every pair of cursors below max_size and
\* every power-of-two max_size the width allows.
C27_MaskedDifferenceIsModulo ==
    /\ BitAnd(Wrap(tail - head), Wrap(max_size - 1)) = (tail - head) % max_size
    /\ get_data_size = (tail - head) % max_size
    /\ op.name \in {"get_data_size", "size"} => op.ret = (tail - head) % max_size
    /\ op.name = "get_free_size" =>
            op.ret = max_size - 1 - ((tail - head) % max_size)

C27_Witness ==
    /\ op.name = "get_data_size"
    /\ tail < head
    /\ max_size > 4
    /\ op.ret = max_size + tail - head
    /\ Wrap(tail - head) > max_size

\* C28: writing k elements (0 < k <= get_free_size()) through the views of
\* get_write_segments and calling advance_write_pointer(k) leaves the cursors
\* and the storage as append of the same elements does; reading k elements
\* (0 < k <= size()) through the views of get_read_segments and calling
\* advance_read_pointer(k) yields the elements and the cursors of
\* read_ready of k elements.
C28_ZeroCopyEqualsCopy ==
    [][/\ op'.name = "zero_copy_write" =>
            LET copy_size == store_copy_size(head, tail, op'.size)
            IN  /\ op'.ret = copy_size
                /\ buf' = copy_in(buf, tail, op'.item, copy_size, 0)
                /\ tail' = next_cursor(tail, copy_size)
                /\ head' = head
       /\ op'.name = "zero_copy_read" =>
            LET copy_size == read_copy_size(head, tail, op'.size)
            IN  /\ op'.ret = copy_size
                /\ op'.out = copy_out(buf, head, copy_size)
                /\ head' = next_cursor(head, copy_size)
                /\ tail' = tail
                /\ buf' = buf]_vars

C28_Witness ==
    /\ op.name = "zero_copy_write"
    /\ op.ret >= 2
    /\ 0 < tail
    /\ tail < op.ret
    /\ op.before > 0

\* C26: with both polling loops scheduled fairly every call returns, the
\* producer eventually has the whole stream accepted, every accepted element
\* is eventually read, and the buffer is never full and empty at once.
C26_Progress ==
    /\ (p_pc # "idle") ~> (p_pc = "idle")
    /\ (c_pc # "idle") ~> (c_pc = "idle")
    /\ <>[](accepted = StreamLen)
    /\ []<>(Len(consumed) >= accepted)
    /\ <>[](Len(consumed) = StreamLen)
    /\ [](~(full /\ empty))

C26_Witness ==
    /\ p_pc = "ap_store"
    /\ p_copy_size = 0
    /\ c_pc = "pf_empty_tail"
    /\ data_size(c_local_head, tail) = 0
    /\ accepted >= max_size

\* C29: while the producer holds a write view no slot of it is occupied,
\* whatever the consumer does meanwhile; while the consumer holds a read
\* view every slot of it stays occupied and keeps its content, whatever
\* push_back and append calls run meanwhile.
C29_ViewsStayValid ==
    [][/\ p_view' \cap occupied' = {}
       /\ c_view' \subseteq occupied'
       /\ c_view' \cap writing' = {}
       /\ c_view # {} /\ c_pc' = c_pc => \A s \in c_view : buf'[s] = buf[s]]_vars

C29_Witness ==
    /\ p_pc \in {"wb_hold", "ws_hold"}
    /\ p_view # {}
    /\ head # p_local_head
    /\ c_pc \in {"rb_hold", "rs_hold"}
    /\ c_view # {}

ProducerCalls == {"push_back", "append", "advance_write_pointer"}

ConsumerCalls == {"pop_front", "pop_front_dest", "read_ready",
                  "advance_read_pointer"}

QueryCalls == {"size", "capacity", "empty", "full", "peek", "peek_ready",
               "get_data_size", "get_free_size",
               "get_write_linear_block_single", "get_read_linear_block_single",
               "get_write_segments", "get_read_segments"}

\* the slots a consumer call moves out: from the read cursor before the call
\* up to the read cursor after it
moved_out == {Wrap(head + i) : i \in 0..(data_size(head, head') - 1)}

\* C30: push_back, append and advance_write_pointer leave the read cursor as
\* it is; pop_front, read_ready and advance_read_pointer leave the write
\* cursor and every slot they do not move out as they are (advance_read_pointer
\* every slot); the queries and the four view calls leave both cursors as they
\* are.
C30_RolePartition ==
    [][/\ (op'.name \in ProducerCalls => head' = head)
       /\ (op'.name \in ConsumerCalls =>
              /\ tail' = tail
              /\ \A s \in 0..(max_size - 1) :
                     s \notin moved_out => buf'[s] = buf[s])
       /\ (op'.name = "advance_read_pointer" => buf' = buf)
       /\ (op'.name \in QueryCalls => UNCHANGED <<head, tail>>)]_vars

C30_Witness ==
    /\ op.name = "read_ready"
    /\ op.ret >= 2
    /\ head < tail
    /\ \E s \in 0..(max_size - 1) : buf[s] # DefaultT /\ s \notin occupied

\* C31 as stated: advance_write_pointer(n) never makes size() smaller,
\* whatever n is.
C31_AdvanceWriteNeverShrinks ==
    [][op'.name = "advance_write_pointer" => size' >= size]_vars

\* C31: advance_write_pointer(n) with n not above get_free_size(), or on a
\* full buffer, never makes size() smaller: on a full buffer or with n = 0
\* size() stays, otherwise it grows by n and the write cursor stops short of
\* the read cursor.
C31_AdvanceWriteWithinFreeSpace ==
    [][op'.name = "advance_write_pointer"
            /\ (op'.size <= get_free_size \/ full) =>
         /\ size' >= size
         /\ size' = IF full THEN size ELSE size + op'.size
         /\ (op'.size > 0 => tail' # head')]_vars

C31_Witness ==
    /\ op.name = "advance_write_pointer"
    /\ op.ok
    /\ op.size >= 2
    /\ op.before > 0
    /\ size = op.before + op.size
    /\ tail < head

C33_EveryAcceptedCapacityUsable ==
    /\ [](~(empty /\ full))
    /\ [][op = NoOp /\ op'.name = "push_back" => op'.ok]_vars

=============================================================================
